---- MODULE Spec2Model ----
(***************************************************************************)
(* Traffic-flow clustering pipeline (src/app): the report generator        *)
(* (generate_report.py), the autoencoder builder / trainer                 *)
(* (autoencoder.py, train_model.py), the preprocessing, fetch_param and    *)
(* the get_report handler; and the chatbot of the dashboard                *)
(* (src/dashboard): load_data, query_data and chat_endpoint.               *)
(*                                                                         *)
(* Modelling conventions                                                   *)
(*  - A raw mean is a small natural number.  The mean of a cluster is the  *)
(*    exact rational <<sum, count>>; count = 0 stands for -np.inf.         *)
(*  - KMeans.fit_predict is a library call: its result is any assignment   *)
(*    of the segments to the ids 0..2 (ids may stay unused when latent     *)
(*    vectors coincide); with fewer samples than clusters it raises.       *)
(*  - Model weights are identified by the number of the epoch whose        *)
(*    training step produced them (0 = the initial weights).               *)
(*  - A validation loss is a small natural number; Inf stands for np.inf.  *)
(*  - validation_split is counted in quarters (0, 0.25, 0.5, 0.75).        *)
(*  - A raw mean computed by preprocess_data is the exact rational         *)
(*    <<sum, count>>.  A scaled value is <<num, den2>>, standing for       *)
(*    num / sqrt(den2): with n samples x of a feature, num = n*x - sum(x)  *)
(*    and den2 = n*sum(x^2) - sum(x)^2, that is (x - mean) / std.          *)
(*  - In get_report the training is one step: whether it fails depends on  *)
(*    the shapes and the validation split alone, and the index of the      *)
(*    weights it ends with ranges over the parameter vectors a training    *)
(*    without a seed (random initial weights, shuffled batches) can reach. *)
(*    The tables of get_report keep one count per segment over time, so    *)
(*    that a raw mean is a whole number.                                   *)
(*  - The chatbot server (src/dashboard/chatbot_server.py) and the         *)
(*    TrafficChatbot class (traffic_chatbot.py) hold the same load_data;   *)
(*    one model stands for both.  time.time() is a whole number that never *)
(*    decreases; the content of the CSV file is a version number.          *)
(*  - A text of the chatbot is a sequence of words, the colon being a word *)
(*    of its own; `pattern in text` is the search for the pattern's words  *)
(*    in a row.                                                            *)
(*  - A parameter value of the best run is a string of the characters     *)
(*    "2", ".", "-" and "a".  A converted value is a record of its Python  *)
(*    type and its value; a float is <<numerator, power of ten>>.          *)
(*    config.yaml holds the converted values: yaml.safe_dump followed by   *)
(*    yaml.safe_load keeps the type and the value of an int, a float and   *)
(*    a string.                                                            *)
(*  - Among concurrent requests a stage of get_report is one step.  The   *)
(*    requests work on one table, so the content of a report is the index  *)
(*    of the encoder weights it was computed with; config.yaml is known by *)
(*    the request that wrote it.                                           *)
(*  - Keras restores the best weights either in on_epoch_end at the stop   *)
(*    (Keras 2) or in on_train_end (Keras 3); the source does not pin the  *)
(*    version, so restore_on_train_end is either.                          *)
(*                                                                         *)
(* Specifications                                                          *)
(*  - ReportSpec: generate_report on any raw means and any clustering.     *)
(*  - BuildSpec:  build_autoencoder and the start of fit on any shape,     *)
(*                dataset size and validation split.                       *)
(*  - TrainSpec:  the whole of train_autoencoder on a trainable dataset.   *)
(*  - CallsSpec:  successive calls of train_autoencoder in one process.    *)
(*  - PreSpec:    preprocess_data on any small table of counts.            *)
(*  - PipelineSpec: one request to get_report, stage by stage.             *)
(*  - RerunSpec:  get_report requested MaxRuns times on one input.         *)
(*  - LoadSpec:   calls of the chatbot's load_data as time passes.         *)
(*  - ChatSpec:   one request to the chatbot's chat_endpoint.              *)
(*  - ConcSpec:   MaxRequests requests to get_report served by the worker  *)
(*                threads at once, on one table.                           *)
(*  - FetchSpec:  fetch_param on any small set of parameters, and the      *)
(*                reading of validation_split by get_report.               *)
(***************************************************************************)
EXTENDS Integers, Sequences, FiniteSets, TLC

\* ------------------------------------------------------------------ bounds
MaxSegments == 4
MaxRawMean == 2
MaxTimeSteps == 6
MaxSamples == 3
MaxEpochs == 8
MaxLoss == 2
MaxCalls == 2
MaxCallEpochs == 2
MaxRows == 2
MaxCols == 2
MaxCount == 2
MaxPipeSegments == 3
MaxEncoders == 2
MaxRuns == 2
MaxTime == 4
MaxInterval == 2
MaxVersions == 2
MaxWords == 2
MaxValueLen == 3
MaxRequests == 2

\* --------------------------------------------------------------- constants
N_CLUSTERS == 3
Patience == 5
PoolSize == 2
UpFactor == 2

VARIABLES
    \* generate_report
    road_segments,          \* ordered segment identifiers
    road_segment_raw_mean,  \* raw mean per segment (same order)
    cluster_labels,         \* kmeans.fit_predict(z)
    cluster_to_avg,         \* cluster id -> <<sum, count>>
    ranked,                 \* cluster ids in rank order
    cluster_to_category,    \* cluster id -> category name
    result_rows,            \* rows written to RESULTS_PATH (<<>> = not written)
    rpc,                    \* position in generate_report
    rerr,                   \* exception raised by generate_report
    \* build_autoencoder / train_autoencoder
    time_steps,             \* input_shape[0]
    n_samples,              \* len(x_seq)
    validation_quarters,    \* validation_split * 4
    epochs,                 \* epochs argument
    restore_on_train_end,   \* EarlyStopping restores in on_train_end (Keras 3)
    up_size,                \* decoder start length
    enc_len,                \* encoder length before Flatten
    out_len,                \* autoencoder output length
    tpc,                    \* position in train_autoencoder
    terr,                   \* exception raised by train_autoencoder
    epoch,                  \* epochs run so far
    weights,                \* current model weights
    wait,                   \* EarlyStopping.wait
    best,                   \* EarlyStopping.best
    best_weights,           \* EarlyStopping.best_weights
    stopped_epoch,          \* EarlyStopping.stopped_epoch (0-based epoch index)
    stop_training,          \* model.stop_training
    val_loss,               \* history.history["val_loss"]
    printed,                \* value printed as "Validation Loss:"
    \* the encoder view and successive calls of train_autoencoder
    encoder_weights,        \* weights seen through the encoder model
    call,                   \* number of the current call
    returned,               \* encoders returned by earlier calls
    \* preprocess_data
    raw_table,              \* rows of vehicle_count.csv without the index column
    raw_columns,            \* header of the data columns
    x_seq,                  \* scaled tensor, x_seq[segment][time step]
    segment_names,          \* x_segments.index.to_list()
    segment_mean_raw,       \* x_segments.mean(axis=1)
    ppc,                    \* position in preprocess_data
    perr,                   \* exception raised by preprocess_data
    \* get_report
    gpc,                    \* position in get_report
    gerr,                   \* exception that ended get_report
    file_before,            \* report file on disk when the request arrived
    \* repeated runs of the pipeline on one input
    runs,                   \* outcome of each run so far
    \* load_data of the chatbot
    now,                    \* time.time()
    refresh_interval,       \* settings.REFRESH_INTERVAL / self.refresh_interval
    csv_version,            \* content of the CSV file on disk
    last_load_time,         \* time of the last successful load
    data,                   \* cached DataFrame (None = nothing cached)
    load_returned,          \* what the last call of load_data returned
    load_read,              \* what the last call did: read, failed, cached
    lpc,                    \* "idle", or "returned" right after a call
    \* chat_endpoint of the chatbot server
    question_greets,        \* the question matches greetings_pattern
    df_loaded,              \* load_data returned a DataFrame
    api_outcome,            \* how the Gemini call ends
    api_text,               \* response body, exception message or AI text
    gemini_answer,          \* what ask_gemini returned
    chat_answer,            \* ChatResponse.answer
    chat_status,            \* ChatResponse.status
    hpc,                    \* position in chat_endpoint
    \* fetch_param and the reading of config.yaml
    best_params,            \* best_run.data.params: key -> string
    config,                 \* content of config.yaml: key -> typed value
    read_split,             \* config["validation_split"] read by get_report
    fpc,                    \* position in fetch_param / the reading
    \* concurrent requests to get_report
    req,                    \* per request: position, config read, encoder,
                            \* report computed, report sent
    shared_config,          \* model/config.yaml: the request that wrote it
    shared_report           \* the report file: writer and content

rvars == <<road_segments, road_segment_raw_mean, cluster_labels, cluster_to_avg,
           ranked, cluster_to_category, result_rows, rpc, rerr>>
tvars == <<time_steps, n_samples, validation_quarters, epochs,
           restore_on_train_end, up_size, enc_len, out_len, tpc, terr, epoch,
           weights, wait, best, best_weights, stopped_epoch, stop_training,
           val_loss, printed>>
svars == <<encoder_weights, call, returned>>
pvars == <<raw_table, raw_columns, x_seq, segment_names, segment_mean_raw,
           ppc, perr>>
gvars == <<gpc, gerr, file_before>>
dvars == <<runs>>
lvars == <<now, refresh_interval, csv_version, last_load_time, data,
           load_returned, load_read, lpc>>
hvars == <<question_greets, df_loaded, api_outcome, api_text, gemini_answer,
           chat_answer, chat_status, hpc>>
fvars == <<best_params, config, read_split, fpc>>
qvars == <<req, shared_config, shared_report>>
xvars == <<lvars, hvars, fvars, qvars>>
vars == <<rvars, tvars, svars, pvars, gvars, dvars, xvars>>

Clusters == 0 .. (N_CLUSTERS - 1)
None == -1
Inf == MaxLoss + 100

\* ================================================================ report
NegInf == <<0, 0>>

RECURSIVE SumOver(_, _)
SumOver(f, S) ==
    IF S = {} THEN 0
    ELSE LET i == CHOOSE x \in S : TRUE IN f[i] + SumOver(f, S \ {i})

\* idx = np.where(cluster_labels == c)[0]
Members(labels, c) == {i \in DOMAIN labels : labels[i] = c}

\* variant: an empty cluster gets the average 0 instead of -inf
ClusterAvgEmptyZero(means, labels, c) ==
    LET idx == Members(labels, c)
    IN IF Cardinality(idx) > 0 THEN <<SumOver(means, idx), Cardinality(idx)>>
       ELSE <<0, 1>>

\* float(road_segment_raw_mean.iloc[idx].mean()) if len(idx) > 0 else -np.inf
ClusterAvg(means, labels, c) ==
    LET idx == Members(labels, c)
    IN IF Cardinality(idx) > 0 THEN <<SumOver(means, idx), Cardinality(idx)>>
       ELSE NegInf

\* comparison of two averages as floats: a < b
AvgLess(a, b) ==
    IF b[2] = 0 THEN FALSE
    ELSE IF a[2] = 0 THEN TRUE
    ELSE a[1] * b[2] < b[1] * a[2]

\* variant: an unstable sort, the item goes before elements with an equal key
RECURSIVE InsertDescUnstable(_, _)
InsertDescUnstable(s, item) ==
    IF s = <<>> THEN <<item>>
    ELSE IF ~AvgLess(item[2], Head(s)[2]) THEN <<item>> \o s
    ELSE <<Head(s)>> \o InsertDescUnstable(Tail(s), item)

\* one step of the stable descending sort: the item goes after every element
\* whose key is not less than its own
RECURSIVE InsertDesc(_, _)
InsertDesc(s, item) ==
    IF s = <<>> THEN <<item>>
    ELSE IF AvgLess(Head(s)[2], item[2]) THEN <<item>> \o s
    ELSE <<Head(s)>> \o InsertDesc(Tail(s), item)

\* sorted(items, key=lambda x: x[1], reverse=True)
RECURSIVE SortedDesc(_)
SortedDesc(items) ==
    IF items = <<>> THEN <<>>
    ELSE InsertDesc(SortedDesc(SubSeq(items, 1, Len(items) - 1)), items[Len(items)])

\* cluster_to_avg.items(): insertion order of the loop over range(3)
Items(avg) == [k \in 1 .. N_CLUSTERS |-> <<k - 1, avg[k - 1]>>]

\* variant: the names listed from high to low
rank_to_name_HighFirst ==
    [r \in Clusters |->
        IF r = 0 THEN "High Flow Level"
        ELSE IF r = 1 THEN "Medium Flow Level"
        ELSE "Low Flow Level"]

\* rank_to_name = {0: "Low Flow Level", 1: "Medium Flow Level", 2: "High Flow Level"}
rank_to_name ==
    [r \in Clusters |->
        IF r = 0 THEN "Low Flow Level"
        ELSE IF r = 1 THEN "Medium Flow Level"
        ELSE "High Flow Level"]

\* for rank, (cluster_id, _) in enumerate(ranked): ...[cluster_id] = rank_to_name[rank]
CategoryOf(rk) ==
    [c \in Clusters |->
        rank_to_name[(CHOOSE p \in DOMAIN rk : rk[p][1] = c) - 1]]

\* variant: the category is looked up by cluster id instead of by rank
ReportRowsByClusterId(segs, labels, cat, means) ==
    [i \in DOMAIN labels |->
        [segment |-> segs[i], cluster_id |-> labels[i],
         category |-> rank_to_name[labels[i]], avg_raw_traffic |-> means[i]]]

\* the DataFrame written by to_csv
ReportRows(segs, labels, cat, means) ==
    [i \in DOMAIN labels |->
        [segment |-> segs[i], cluster_id |-> labels[i],
         category |-> cat[labels[i]], avg_raw_traffic |-> means[i]]]

RInit ==
    /\ \E n \in 1 .. MaxSegments :
          /\ road_segments = [i \in 1 .. n |-> 100 + i]
          /\ road_segment_raw_mean \in [1 .. n -> 0 .. MaxRawMean]
    /\ cluster_labels = <<>>
    /\ cluster_to_avg = <<>>
    /\ ranked = <<>>
    /\ cluster_to_category = <<>>
    /\ result_rows = <<>>
    /\ rpc = "predict"
    /\ rerr = "none"

\* variant: the report file is opened for writing before clustering
FitPredictTruncates ==
    /\ rpc = "predict"
    /\ result_rows' = <<>>
    /\ IF Len(road_segments) < N_CLUSTERS
       THEN /\ rerr' = "ValueError"
            /\ rpc' = "failed"
            /\ UNCHANGED cluster_labels
       ELSE /\ cluster_labels' \in [DOMAIN road_segments -> Clusters]
            /\ rpc' = "rank"
            /\ UNCHANGED rerr
    /\ UNCHANGED <<road_segments, road_segment_raw_mean, cluster_to_avg, ranked,
                   cluster_to_category>>

\* z = encoder.predict(...); cluster_labels = kmeans.fit_predict(z)
FitPredict ==
    /\ rpc = "predict"
    /\ IF Len(road_segments) < N_CLUSTERS
       THEN /\ rerr' = "ValueError"
            /\ rpc' = "failed"
            /\ UNCHANGED cluster_labels
       ELSE /\ cluster_labels' \in [DOMAIN road_segments -> Clusters]
            /\ rpc' = "rank"
            /\ UNCHANGED rerr
    /\ UNCHANGED <<road_segments, road_segment_raw_mean, cluster_to_avg, ranked,
                   cluster_to_category, result_rows>>

\* the ranking and labelling of the clusters
RankClusters ==
    /\ rpc = "rank"
    /\ LET avg == [c \in Clusters |->
                      ClusterAvg(road_segment_raw_mean, cluster_labels, c)]
           rk == SortedDesc(Items(avg))
       IN /\ cluster_to_avg' = avg
          /\ ranked' = rk
          /\ cluster_to_category' = CategoryOf(rk)
    /\ rpc' = "write"
    /\ UNCHANGED <<road_segments, road_segment_raw_mean, cluster_labels,
                   result_rows, rerr>>

\* result_df.to_csv(RESULTS_PATH, index=False)
WriteReport ==
    /\ rpc = "write"
    /\ result_rows' = ReportRows(road_segments, cluster_labels,
                                 cluster_to_category, road_segment_raw_mean)
    /\ rpc' = "done"
    /\ UNCHANGED <<road_segments, road_segment_raw_mean, cluster_labels,
                   cluster_to_avg, ranked, cluster_to_category, rerr>>

TIdle ==
    /\ time_steps = 0 /\ n_samples = 0 /\ validation_quarters = 0 /\ epochs = 0
    /\ restore_on_train_end = FALSE
    /\ up_size = 0 /\ enc_len = 0 /\ out_len = 0
    /\ tpc = "idle" /\ terr = "none" /\ epoch = 0 /\ weights = 0 /\ wait = 0
    /\ best = Inf /\ best_weights = None /\ stopped_epoch = 0
    /\ stop_training = FALSE
    /\ val_loss = <<>> /\ printed = None

SIdle == encoder_weights = 0 /\ call = 0 /\ returned = <<>>

PIdle ==
    /\ raw_table = <<>> /\ raw_columns = <<>> /\ x_seq = <<>>
    /\ segment_names = <<>> /\ segment_mean_raw = <<>>
    /\ ppc = "idle" /\ perr = "none"

GIdle == gpc = "idle" /\ gerr = "none" /\ file_before = <<>>

DIdle == runs = <<>>

LIdle ==
    /\ now = 0 /\ refresh_interval = 0 /\ csv_version = 0
    /\ last_load_time = 0 /\ data = None
    /\ load_returned = None /\ load_read = "none" /\ lpc = "off"

HIdle ==
    /\ question_greets = FALSE /\ df_loaded = FALSE /\ api_outcome = "none"
    /\ api_text = <<>> /\ gemini_answer = <<>> /\ chat_answer = <<>>
    /\ chat_status = "none" /\ hpc = "off"

FIdle ==
    /\ best_params = <<>> /\ config = <<>> /\ read_split = <<>> /\ fpc = "off"

QIdle == req = <<>> /\ shared_config = 0 /\ shared_report = <<>>

XIdle == LIdle /\ HIdle /\ FIdle /\ QIdle

ReportInit == RInit /\ TIdle /\ SIdle /\ PIdle /\ GIdle /\ DIdle /\ XIdle

\* what generate_report leaves alone
OutsideReport == <<tvars, svars, pvars, gvars, dvars, xvars>>

ReportNext ==
    \/ FitPredict /\ UNCHANGED OutsideReport
    \/ RankClusters /\ UNCHANGED OutsideReport
    \/ WriteReport /\ UNCHANGED OutsideReport

ReportSpec == ReportInit /\ [][ReportNext]_vars

\* ======================================================== autoencoder
\* layers.MaxPooling1D(2, padding="same"): ceil(len / 2)
PoolSame(len) == (len + PoolSize - 1) \div PoolSize

\* length of the encoder's feature map before Flatten
EncoderLen(n_timesteps) == PoolSame(PoolSame(n_timesteps))

\* variant: the quotient rounded down
UpSizeFloor(n_timesteps) == n_timesteps \div 4

\* up_size = n_timesteps // 4 + (n_timesteps % 4 > 0)
UpSize(n_timesteps) ==
    n_timesteps \div 4 + (IF n_timesteps % 4 > 0 THEN 1 ELSE 0)

\* Reshape((up_size, 8)), UpSampling1D(2), Conv1D same, UpSampling1D(2),
\* Conv1D same, Conv1D same: the convolutions keep the length
DecoderOutLen(n_timesteps) == UpSize(n_timesteps) * UpFactor * UpFactor

\* ============================================================ training
\* split_at = int(math.floor(batch_dim * (1. - validation_split)))
SplitAt(n, quarters) == (n * (4 - quarters)) \div 4

\* fit raises when the split leaves the training or the validation side empty
SplitRaises(n, quarters) ==
    /\ quarters # 0
    /\ (SplitAt(n, quarters) = 0 \/ SplitAt(n, quarters) = n)

\* the loss of an output of length out against a target of length t is
\* computable when the lengths agree or the target broadcasts (length 1)
LossShapesCompatible(out, t) == out = t \/ t = 1

\* variant: a loss equal to the best one counts as an improvement
IsImprovementOrEqual(current, reference) == current <= reference

\* EarlyStopping._is_improvement, mode "min", min_delta 0: np.less
IsImprovement(current, reference) == current < reference

\* variant: one more epoch of patience
ShouldStopLate(w, epoch_index) == w > Patience /\ epoch_index > 0

\* if self.wait >= self.patience and epoch > 0
ShouldStop(w, epoch_index) == w >= Patience /\ epoch_index > 0

\* variant: the loop runs one epoch more than asked
LoopContinuesOneMore(e, n) == e <= n

\* for epoch in range(initial_epoch, epochs) of fit, with initial_epoch 0
LoopContinues(e, n) == e < n

RECURSIVE MinOf(_)
MinOf(h) ==
    IF Len(h) = 1 THEN h[1]
    ELSE LET m == MinOf(Tail(h)) IN IF h[1] < m THEN h[1] ELSE m

\* state at the call of train_autoencoder, before build_autoencoder
TStart ==
    /\ up_size = 0 /\ enc_len = 0 /\ out_len = 0
    /\ tpc = "build" /\ terr = "none" /\ epoch = 0 /\ weights = 0 /\ wait = 0
    /\ best = Inf /\ best_weights = None /\ stopped_epoch = 0
    /\ stop_training = FALSE
    /\ val_loss = <<>> /\ printed = None

\* any input shape, dataset size and validation split
BInit ==
    /\ time_steps \in 1 .. MaxTimeSteps
    /\ n_samples \in 1 .. MaxSamples
    /\ validation_quarters \in 0 .. 3
    /\ epochs \in 1 .. MaxEpochs
    /\ restore_on_train_end \in BOOLEAN
    /\ TStart

\* a dataset the autoencoder can be fitted to: the length is a multiple of 4,
\* validation_split is 0 or the default 0.25
TInit ==
    /\ time_steps \in {t \in 1 .. MaxTimeSteps : t % 4 = 0}
    /\ n_samples = MaxSamples
    /\ validation_quarters \in {0, 1}
    /\ epochs \in 1 .. MaxEpochs
    /\ restore_on_train_end \in BOOLEAN
    /\ TStart

\* autoencoder, encoder = build_autoencoder(latent_dim, input_shape)
Build ==
    /\ tpc = "build"
    /\ enc_len' = EncoderLen(time_steps)
    /\ up_size' = UpSize(time_steps)
    /\ out_len' = DecoderOutLen(time_steps)
    /\ tpc' = "fit"
    /\ UNCHANGED <<time_steps, n_samples, validation_quarters, epochs,
                   restore_on_train_end, terr, epoch, weights, wait, best,
                   best_weights, stopped_epoch, stop_training, val_loss, printed>>

\* autoencoder.fit(...) up to the first epoch: the validation split, the
\* tracing of the first train step, EarlyStopping.on_train_begin
FitBegin ==
    /\ tpc = "fit"
    /\ IF SplitRaises(n_samples, validation_quarters)
       THEN tpc' = "failed" /\ terr' = "ValueError"
       ELSE IF ~LossShapesCompatible(out_len, time_steps)
       THEN tpc' = "failed" /\ terr' = "IncompatibleShapes"
       ELSE tpc' = "epoch" /\ terr' = terr
    /\ wait' = 0
    /\ stopped_epoch' = 0
    /\ best' = Inf
    /\ best_weights' = None
    /\ UNCHANGED <<time_steps, n_samples, validation_quarters, epochs,
                   restore_on_train_end, up_size, enc_len, out_len, epoch,
                   weights, stop_training, val_loss, printed>>

\* one epoch of fit followed by EarlyStopping.on_epoch_end
Epoch ==
    /\ tpc = "epoch"
    /\ LoopContinues(epoch, epochs)
    /\ ~stop_training
    /\ epoch' = epoch + 1
    /\ IF validation_quarters = 0
       THEN \* no val_loss in the logs: the callback returns at once
            /\ weights' = epoch + 1
            /\ UNCHANGED <<wait, best, best_weights, stopped_epoch,
                           stop_training, val_loss>>
       ELSE \E current \in 0 .. MaxLoss :
            LET trained == epoch + 1
                bw0 == IF best_weights = None THEN trained ELSE best_weights
                improved == IsImprovement(current, best)
                w == IF improved THEN 0 ELSE wait + 1
                bw == IF improved THEN trained ELSE bw0
                stop == ~improved /\ ShouldStop(w, epoch)
            IN /\ val_loss' = Append(val_loss, current)
               /\ wait' = w
               /\ best' = IF improved THEN current ELSE best
               /\ best_weights' = bw
               /\ stopped_epoch' = IF stop THEN epoch ELSE stopped_epoch
               /\ stop_training' = stop
               /\ weights' = IF stop /\ ~restore_on_train_end THEN bw
                             ELSE trained
    /\ tpc' = IF ~LoopContinues(epoch', epochs) \/ stop_training'
              THEN "train_end" ELSE "epoch"
    /\ UNCHANGED <<time_steps, n_samples, validation_quarters, epochs,
                   restore_on_train_end, up_size, enc_len, out_len, terr,
                   printed>>

\* EarlyStopping.on_train_end, fit returns the history
FitEnd ==
    /\ tpc = "train_end"
    /\ weights' = IF restore_on_train_end /\ best_weights # None
                  THEN best_weights ELSE weights
    /\ tpc' = "print"
    /\ UNCHANGED <<time_steps, n_samples, validation_quarters, epochs,
                   restore_on_train_end, up_size, enc_len, out_len, terr,
                   epoch, wait, best, best_weights, stopped_epoch,
                   stop_training, val_loss, printed>>

\* print("Validation Loss:", min(history.history["val_loss"])); return encoder
PrintAndReturn ==
    /\ tpc = "print"
    /\ IF validation_quarters = 0
       THEN tpc' = "failed" /\ terr' = "KeyError" /\ printed' = printed
       ELSE tpc' = "done" /\ terr' = terr /\ printed' = MinOf(val_loss)
    /\ UNCHANGED <<time_steps, n_samples, validation_quarters, epochs,
                   restore_on_train_end, up_size, enc_len, out_len, epoch,
                   weights, wait, best, best_weights, stopped_epoch,
                   stop_training, val_loss>>

RIdle ==
    /\ road_segments = <<>> /\ road_segment_raw_mean = <<>>
    /\ cluster_labels = <<>> /\ cluster_to_avg = <<>> /\ ranked = <<>>
    /\ cluster_to_category = <<>> /\ result_rows = <<>>
    /\ rpc = "idle" /\ rerr = "none"

\* variant: the encoder is a copy with parameters of its own
EncoderViewCopy(w, own) == own

\* encoder = keras.Model(inputs, latent): the encoder is made of the
\* autoencoder's own layers, so it sees the autoencoder's current weights
EncoderView(w, own) == w

\* variant: one module-level model reused by every call
ModelOfGlobal(c) == 1

\* the model object built by call c: build_autoencoder makes new layers
ModelOf(c) == c

\* the effect of a change of the autoencoder's weights on the encoder of
\* this call and on the encoders handed out by earlier calls
EncoderSync ==
    /\ encoder_weights' = EncoderView(weights', encoder_weights)
    /\ returned' =
          [i \in DOMAIN returned |->
              IF returned[i].model = ModelOf(call)
              THEN [returned[i] EXCEPT !.weights = encoder_weights']
              ELSE returned[i]]
    /\ UNCHANGED call

\* first call of train_autoencoder in the process
SStart == encoder_weights = 0 /\ call = 1 /\ returned = <<>>

\* what train_autoencoder leaves alone
OutsideTrain == <<rvars, pvars, gvars, dvars, xvars>>

BuildInit == BInit /\ SStart /\ RIdle /\ PIdle /\ GIdle /\ DIdle /\ XIdle

BuildNext ==
    \/ Build /\ EncoderSync /\ UNCHANGED OutsideTrain
    \/ FitBegin /\ EncoderSync /\ UNCHANGED OutsideTrain

BuildSpec == BuildInit /\ [][BuildNext]_vars

TrainInit == TInit /\ SStart /\ RIdle /\ PIdle /\ GIdle /\ DIdle /\ XIdle

TrainNext ==
    \/ Build /\ EncoderSync /\ UNCHANGED OutsideTrain
    \/ FitBegin /\ EncoderSync /\ UNCHANGED OutsideTrain
    \/ Epoch /\ EncoderSync /\ UNCHANGED OutsideTrain
    \/ FitEnd /\ EncoderSync /\ UNCHANGED OutsideTrain
    \/ PrintAndReturn /\ EncoderSync /\ UNCHANGED OutsideTrain

TrainSpec == TrainInit /\ [][TrainNext]_vars

\* ------------------------------------------- successive calls of the trainer
\* short trainings: the calls differ in the weights they end with
CInit ==
    /\ time_steps \in {t \in 1 .. MaxTimeSteps : t % 4 = 0}
    /\ n_samples = MaxSamples
    /\ validation_quarters \in {0, 1}
    /\ epochs \in 1 .. MaxCallEpochs
    /\ restore_on_train_end \in BOOLEAN
    /\ TStart

\* train_autoencoder is called again (get_report calls it once per request);
\* the caller keeps the encoder the previous call returned
NextCall ==
    /\ tpc \in {"done", "failed"}
    /\ call < MaxCalls
    /\ call' = call + 1
    /\ returned' = IF tpc = "done"
                   THEN Append(returned, [model |-> ModelOf(call),
                                          weights |-> encoder_weights])
                   ELSE returned
    /\ encoder_weights' = 0
    /\ up_size' = 0 /\ enc_len' = 0 /\ out_len' = 0
    /\ tpc' = "build" /\ terr' = "none" /\ epoch' = 0 /\ weights' = 0
    /\ wait' = 0 /\ best' = Inf /\ best_weights' = None
    /\ stopped_epoch' = 0 /\ stop_training' = FALSE
    /\ val_loss' = <<>> /\ printed' = None
    /\ UNCHANGED <<time_steps, n_samples, validation_quarters, epochs,
                   restore_on_train_end>>

CallsInit == CInit /\ SStart /\ RIdle /\ PIdle /\ GIdle /\ DIdle /\ XIdle

CallsNext ==
    \/ Build /\ EncoderSync /\ UNCHANGED OutsideTrain
    \/ FitBegin /\ EncoderSync /\ UNCHANGED OutsideTrain
    \/ Epoch /\ EncoderSync /\ UNCHANGED OutsideTrain
    \/ FitEnd /\ EncoderSync /\ UNCHANGED OutsideTrain
    \/ PrintAndReturn /\ EncoderSync /\ UNCHANGED OutsideTrain
    \/ NextCall /\ UNCHANGED OutsideTrain

CallsSpec == CallsInit /\ [][CallsNext]_vars

\* ========================================================= preprocessing
RECURSIVE SeqSum(_)
SeqSum(q) == IF q = <<>> THEN 0 ELSE Head(q) + SeqSum(Tail(q))

\* x_segments = unprocessed_data.T: row i is segment i over the time steps
Transposed(table, ncols) ==
    [i \in 1 .. ncols |-> [t \in 1 .. Len(table) |-> table[t][i]]]

\* variant: the mean taken along the other axis (one value per time step)
SegmentMeansAxis0(xs) ==
    IF Len(xs) = 0 THEN <<>>
    ELSE [t \in 1 .. Len(xs[1]) |->
             <<SeqSum([i \in 1 .. Len(xs) |-> xs[i][t]]), Len(xs)>>]

\* x_segments.mean(axis=1)
SegmentMeans(xs) == [i \in 1 .. Len(xs) |-> <<SeqSum(xs[i]), Len(xs[i])>>]

\* variant: scaling without centring
ScaledNumUncentred(col, i) == Len(col) * col[i]

\* numerator of (x - mean) / std over the samples of one feature
ScaledNum(col, i) == Len(col) * col[i] - SeqSum(col)

\* squared denominator: n^2 * var, or n^2 for a feature of variance 0, whose
\* scale StandardScaler sets to 1
ScaledDen2(col) ==
    LET d == Len(col) * SeqSum([i \in 1 .. Len(col) |-> col[i] * col[i]])
             - SeqSum(col) * SeqSum(col)
    IN IF d > 0 THEN d ELSE Len(col) * Len(col)

\* scaler.fit_transform(x_segments.values).reshape((n_segments, n_timesteps, 1))
ScaledTensor(xs) ==
    [i \in 1 .. Len(xs) |->
        [t \in 1 .. Len(xs[i]) |->
            LET col == [j \in 1 .. Len(xs) |-> xs[j][t]]
            IN << <<ScaledNum(col, i), ScaledDen2(col)>> >>]]

\* any table of at most MaxRows time steps and MaxCols segments
PInit ==
    /\ \E nrows \in 0 .. MaxRows, ncols \in 0 .. MaxCols :
          /\ raw_table \in [1 .. nrows -> [1 .. ncols -> 0 .. MaxCount]]
          /\ raw_columns = [i \in 1 .. ncols |-> 100 + i]
    /\ x_seq = <<>> /\ segment_names = <<>> /\ segment_mean_raw = <<>>
    /\ ppc = "start" /\ perr = "none"

\* preprocess_data(): StandardScaler rejects an array without samples or
\* without features
Preprocess ==
    /\ ppc = "start"
    /\ LET xs == Transposed(raw_table, Len(raw_columns))
       IN IF Len(raw_columns) = 0 \/ Len(raw_table) = 0
          THEN /\ ppc' = "failed"
               /\ perr' = "ValueError"
               /\ UNCHANGED <<x_seq, segment_names, segment_mean_raw>>
          ELSE /\ segment_names' = raw_columns
               /\ segment_mean_raw' = SegmentMeans(xs)
               /\ x_seq' = ScaledTensor(xs)
               /\ ppc' = "done"
               /\ UNCHANGED perr
    /\ UNCHANGED <<raw_table, raw_columns>>

\* what preprocess_data leaves alone
OutsidePre == <<rvars, tvars, svars, gvars, dvars, xvars>>

PreInit == PInit /\ RIdle /\ TIdle /\ SIdle /\ GIdle /\ DIdle /\ XIdle

PreNext == Preprocess /\ UNCHANGED OutsidePre

PreSpec == PreInit /\ [][PreNext]_vars

\* ============================================================ get_report
\* a report left on disk by an earlier run
OldReport ==
    << [segment |-> 100, cluster_id |-> 0, category |-> "Low Flow Level",
        avg_raw_traffic |-> 0] >>

\* the float of a raw mean <<sum, count>>
MeanValue(m) == m[1] \div m[2]

\* how train_autoencoder ends on n samples of t time steps with the given
\* validation split
TrainOutcome(n, t, quarters) ==
    IF SplitRaises(n, quarters) THEN "ValueError"
    ELSE IF ~LossShapesCompatible(DecoderOutLen(t), t) THEN "IncompatibleShapes"
    ELSE IF quarters = 0 THEN "KeyError"
    ELSE "none"

\* exceptions of fetch_param and of the reading of config.yaml: no
\* experiment, no run, a missing key
FetchErrors == {"AttributeError", "IndexError", "KeyError"}

\* the locals of train_autoencoder that get_report's training step leaves
tlocals == <<epochs, restore_on_train_end, up_size, enc_len, out_len, epoch,
             wait, best, best_weights, stopped_epoch, stop_training, val_loss,
             printed>>

\* the request arrives: a table on disk, perhaps an old report
GStart ==
    /\ x_seq = <<>> /\ segment_names = <<>> /\ segment_mean_raw = <<>>
    /\ ppc = "start" /\ perr = "none"
    /\ road_segments = <<>> /\ road_segment_raw_mean = <<>>
    /\ cluster_labels = <<>> /\ cluster_to_avg = <<>> /\ ranked = <<>>
    /\ cluster_to_category = <<>>
    /\ rpc = "idle" /\ rerr = "none"
    /\ file_before = result_rows
    /\ gpc = "preprocess" /\ gerr = "none"
    /\ TIdle
    /\ encoder_weights = 0 /\ call = 1 /\ returned = <<>>
    /\ runs = <<>>
    /\ XIdle

\* any table whose segments keep one count over time
GInit ==
    /\ \E ncols \in 0 .. MaxPipeSegments, nrows \in 0 .. MaxTimeSteps :
       \E level \in [1 .. ncols -> 0 .. MaxRawMean] :
          /\ raw_table = [t \in 1 .. nrows |-> level]
          /\ raw_columns = [i \in 1 .. ncols |-> 100 + i]
    /\ result_rows \in {<<>>, OldReport}
    /\ GStart

\* a table the whole pipeline can process, no report on disk yet
GInitRerun ==
    /\ \E nrows \in {t \in 1 .. MaxTimeSteps : t % 4 = 0} :
       \E level \in [1 .. MaxPipeSegments -> 0 .. MaxRawMean] :
          /\ raw_table = [t \in 1 .. nrows |-> level]
          /\ raw_columns = [i \in 1 .. MaxPipeSegments |-> 100 + i]
    /\ result_rows = <<>>
    /\ GStart

\* processed_data, segment_names, segment_mean_raw = preprocess_data()
PipePreprocess ==
    /\ gpc = "preprocess"
    /\ Preprocess
    /\ gpc' = IF ppc' = "failed" THEN "failed" ELSE "fetch"
    /\ gerr' = perr'
    /\ UNCHANGED <<rvars, tvars, svars, dvars, xvars, file_before>>

\* fetch_param(); config = yaml.safe_load(f); validation_split = config[...]
PipeFetchParam ==
    /\ gpc = "fetch"
    /\ \/ /\ gerr' \in FetchErrors
          /\ gpc' = "failed"
          /\ UNCHANGED validation_quarters
       \/ /\ validation_quarters' \in {0, 1}
          /\ gpc' = "train"
          /\ UNCHANGED gerr
    /\ UNCHANGED <<rvars, svars, pvars, dvars, xvars, file_before, time_steps,
                   n_samples, tpc, terr, weights, tlocals>>

\* encoder = train_autoencoder(latent_dim, processed_data, ...)
PipeTrain ==
    /\ gpc = "train"
    /\ n_samples' = Len(x_seq)
    /\ time_steps' = Len(x_seq[1])
    /\ LET outcome == TrainOutcome(n_samples', time_steps', validation_quarters)
       IN IF outcome = "none"
          THEN /\ weights' \in 1 .. MaxEncoders
               /\ tpc' = "done"
               /\ gpc' = "report"
               /\ UNCHANGED <<terr, gerr>>
          ELSE /\ tpc' = "failed"
               /\ terr' = outcome
               /\ gpc' = "failed"
               /\ gerr' = outcome
               /\ UNCHANGED weights
    /\ EncoderSync
    /\ UNCHANGED <<rvars, pvars, dvars, xvars, file_before, validation_quarters,
                   tlocals>>

\* generate_report(processed_data, encoder, segment_names, segment_mean_raw)
CallGenerateReport ==
    /\ gpc = "report"
    /\ rpc = "idle"
    /\ road_segments' = segment_names
    /\ road_segment_raw_mean' =
          [i \in DOMAIN segment_mean_raw |-> MeanValue(segment_mean_raw[i])]
    /\ rpc' = "predict"
    /\ UNCHANGED <<cluster_labels, cluster_to_avg, ranked, cluster_to_category,
                   result_rows, rerr>>
    /\ UNCHANGED <<tvars, svars, pvars, gvars, dvars, xvars>>

\* KMeans(n_clusters=3, n_init=20, random_state=42): the labels are a function
\* of the latent vectors, that is of the encoder and the table
KMeansSeeded ==
    \A k \in DOMAIN runs :
        (runs[k].encoder = encoder_weights /\ rpc' = "rank")
            => cluster_labels' = runs[k].cluster_id

\* get_report while generate_report runs; an exception ends the request
GReportStep ==
    /\ gpc = "report"
    /\ gpc' = IF rpc' = "failed" THEN "failed"
              ELSE IF rpc' = "done" THEN "respond" ELSE "report"
    /\ gerr' = IF rpc' = "failed" THEN rerr' ELSE gerr
    /\ UNCHANGED <<tvars, svars, pvars, dvars, xvars, file_before>>

\* what a run of the pipeline produced
RunOutcome ==
    [encoder |-> encoder_weights,
     cluster_id |-> cluster_labels,
     category |-> [i \in DOMAIN cluster_labels |->
                      cluster_to_category[cluster_labels[i]]]]

\* return FileResponse(path=os.path.join("data\processed", ...)): the path
\* names the written file where the backslash separates directories only
PipeRespond ==
    /\ gpc = "respond"
    /\ \/ gpc' = "responded" /\ UNCHANGED gerr
       \/ gpc' = "failed" /\ gerr' = "RuntimeError"
    /\ runs' = Append(runs, RunOutcome)
    /\ UNCHANGED <<rvars, tvars, svars, pvars, file_before, xvars>>

\* the next request, on the same table
NextRun ==
    /\ gpc \in {"responded", "failed"}
    /\ call < MaxRuns
    /\ call' = call + 1
    /\ file_before' = result_rows
    /\ gpc' = "preprocess" /\ gerr' = "none"
    /\ x_seq' = <<>> /\ segment_names' = <<>> /\ segment_mean_raw' = <<>>
    /\ ppc' = "start" /\ perr' = "none"
    /\ road_segments' = <<>> /\ road_segment_raw_mean' = <<>>
    /\ cluster_labels' = <<>> /\ cluster_to_avg' = <<>> /\ ranked' = <<>>
    /\ cluster_to_category' = <<>>
    /\ rpc' = "idle" /\ rerr' = "none"
    /\ time_steps' = 0 /\ n_samples' = 0 /\ validation_quarters' = 0
    /\ tpc' = "idle" /\ terr' = "none" /\ weights' = 0
    /\ encoder_weights' = 0
    /\ UNCHANGED <<raw_table, raw_columns, result_rows, returned, runs, tlocals,
                   xvars>>

PipelineInit == GInit

PipelineNext ==
    \/ PipePreprocess
    \/ PipeFetchParam
    \/ PipeTrain
    \/ CallGenerateReport
    \/ FitPredict /\ KMeansSeeded /\ GReportStep
    \/ RankClusters /\ GReportStep
    \/ WriteReport /\ GReportStep
    \/ PipeRespond

PipelineSpec == PipelineInit /\ [][PipelineNext]_vars

RerunInit == GInitRerun

RerunNext ==
    \/ PipePreprocess
    \/ PipeFetchParam
    \/ PipeTrain
    \/ CallGenerateReport
    \/ FitPredict /\ KMeansSeeded /\ GReportStep
    \/ RankClusters /\ GReportStep
    \/ WriteReport /\ GReportStep
    \/ PipeRespond
    \/ NextRun

RerunSpec == RerunInit /\ [][RerunNext]_vars

\* ============================================================= load_data
\* variant: the file is read again as soon as the interval has passed
NeedsReadAtInterval(d, t, last, interval) == d = None \/ (t - last) >= interval

\* if data is None or (now - last_load_time) > settings.REFRESH_INTERVAL
NeedsRead(d, t, last, interval) == d = None \/ (t - last) > interval

\* variant: the cached copy is returned when the read fails
FailureResultStale(d) == d

\* except Exception: ...; return None
FailureResult(d) == None

\* module start: last_load_time = 0, data = None
LStart ==
    /\ now \in 0 .. MaxTime
    /\ refresh_interval \in 0 .. MaxInterval
    /\ csv_version = 1
    /\ last_load_time = 0
    /\ data = None
    /\ load_returned = None
    /\ load_read = "none"
    /\ lpc = "idle"

\* time passes
Tick ==
    /\ now < MaxTime
    /\ now' = now + 1
    /\ UNCHANGED <<refresh_interval, csv_version, last_load_time, data,
                   load_returned, load_read, lpc>>

\* the report file is replaced on disk
RewriteCsv ==
    /\ csv_version < MaxVersions
    /\ csv_version' = csv_version + 1
    /\ UNCHANGED <<now, refresh_interval, last_load_time, data, load_returned,
                   load_read, lpc>>

\* load_data(): pd.read_csv either returns the file's content or raises
LoadData ==
    /\ lpc = "idle"
    /\ lpc' = "returned"
    /\ IF NeedsRead(data, now, last_load_time, refresh_interval)
       THEN \/ /\ data' = csv_version
               /\ last_load_time' = now
               /\ load_returned' = data'
               /\ load_read' = "read"
            \/ /\ load_read' = "failed"
               /\ load_returned' = FailureResult(data)
               /\ UNCHANGED <<data, last_load_time>>
       ELSE /\ load_returned' = data
            /\ load_read' = "cached"
            /\ UNCHANGED <<data, last_load_time>>
    /\ UNCHANGED <<now, refresh_interval, csv_version>>

\* the caller (health_check, chat_endpoint) uses the value
UseData ==
    /\ lpc = "returned"
    /\ lpc' = "idle"
    /\ UNCHANGED <<now, refresh_interval, csv_version, last_load_time, data,
                   load_returned, load_read>>

\* what load_data leaves alone
OutsideLoad ==
    <<rvars, tvars, svars, pvars, gvars, dvars, hvars, fvars, qvars>>

LoadInit ==
    /\ LStart
    /\ RIdle /\ TIdle /\ SIdle /\ PIdle /\ GIdle /\ DIdle
    /\ HIdle /\ FIdle /\ QIdle

LoadNext ==
    \/ Tick /\ UNCHANGED OutsideLoad
    \/ RewriteCsv /\ UNCHANGED OutsideLoad
    \/ LoadData /\ UNCHANGED OutsideLoad
    \/ UseData /\ UNCHANGED OutsideLoad

LoadSpec == LoadInit /\ [][LoadNext]_vars

\* ================================================== chatbot: query_data
\* cluster_mapping = {0: "Low Traffic", 1: "Medium Traffic", 2: "High Traffic"}
cluster_mapping ==
    [c \in Clusters |->
        IF c = 0 THEN "Low Traffic"
        ELSE IF c = 1 THEN "Medium Traffic"
        ELSE "High Traffic"]

\* the order of the traffic levels the mapping names
LevelRank(level) ==
    IF level = "Low Traffic" THEN 0
    ELSE IF level = "Medium Traffic" THEN 1
    ELSE 2

\* df.loc[df['cluster_id'] == cid, 'avg_raw_traffic'].mean()
ChatClusterAvg(rows, cid) ==
    LET idx == {i \in DOMAIN rows : rows[i].cluster_id = cid}
    IN <<SumOver([i \in DOMAIN rows |-> rows[i].avg_raw_traffic], idx),
         Cardinality(idx)>>

\* ================================================ chatbot: chat_endpoint
Words == {"traffic", "API", "Error", ":", "<p>"}

\* texts of at most MaxWords words
Texts == UNION {[1 .. n -> Words] : n \in 0 .. MaxWords}

ApiOutcomes == {"status", "network", "processing", "ok"}

\* pattern in text
Contains(text, pattern) ==
    \E i \in 1 .. (Len(text) - Len(pattern) + 1) :
        SubSeq(text, i, i + Len(pattern) - 1) = pattern

\* clean_html_response: the tags are removed
RECURSIVE CleanHtml(_)
CleanHtml(text) ==
    IF text = <<>> THEN <<>>
    ELSE IF Head(text) = "<p>" THEN CleanHtml(Tail(text))
    ELSE <<Head(text)>> \o CleanHtml(Tail(text))

\* what ask_gemini returns
AskGeminiResult(outcome, text) ==
    IF outcome = "status" THEN <<"API", "Error", ":", "500", "-">> \o text
    ELSE IF outcome = "network" THEN <<"Network", "error", ":">> \o text
    ELSE IF outcome = "processing"
    THEN <<"Error", "processing", "response", ":">> \o text
    ELSE CleanHtml(text)

\* "API Error" in answer or "Network error" in answer or "Error:" in answer
LooksFailed(answer) ==
    \/ Contains(answer, <<"API", "Error">>)
    \/ Contains(answer, <<"Network", "error">>)
    \/ Contains(answer, <<"Error", ":">>)

\* context = query_data(request.question, df)
context == <<"rows">>

\* the raw data context with its heading and its note
FallbackAnswer(ctx) ==
    <<"Traffic Data Analysis", ":">> \o ctx \o <<"Note", ":", "AI service unavailable">>

\* a request arrives
HStart ==
    /\ question_greets \in BOOLEAN
    /\ df_loaded \in BOOLEAN
    /\ api_outcome \in ApiOutcomes
    /\ api_text \in Texts
    /\ gemini_answer = <<>>
    /\ chat_answer = <<>>
    /\ chat_status = "none"
    /\ hpc = "start"

\* the greeting, df = load_data(), context = query_data(...)
ChatBegin ==
    /\ hpc = "start"
    /\ IF question_greets
       THEN /\ chat_answer' = <<"Hello">>
            /\ chat_status' = "success"
            /\ hpc' = "done"
       ELSE IF ~df_loaded
       THEN /\ chat_answer' = <<"Sorry">>
            /\ chat_status' = "error"
            /\ hpc' = "done"
       ELSE /\ hpc' = "ask"
            /\ UNCHANGED <<chat_answer, chat_status>>
    /\ UNCHANGED <<question_greets, df_loaded, api_outcome, api_text,
                   gemini_answer>>

\* answer = ask_gemini(request.question, context)
AskGemini ==
    /\ hpc = "ask"
    /\ gemini_answer' = AskGeminiResult(api_outcome, api_text)
    /\ hpc' = "reply"
    /\ UNCHANGED <<question_greets, df_loaded, api_outcome, api_text,
                   chat_answer, chat_status>>

\* the fallback test and return ChatResponse(answer=answer)
ChatReply ==
    /\ hpc = "reply"
    /\ chat_answer' = IF LooksFailed(gemini_answer)
                      THEN FallbackAnswer(context) ELSE gemini_answer
    /\ chat_status' = "success"
    /\ hpc' = "done"
    /\ UNCHANGED <<question_greets, df_loaded, api_outcome, api_text,
                   gemini_answer>>

\* what chat_endpoint leaves alone
OutsideChat ==
    <<rvars, tvars, svars, pvars, gvars, dvars, lvars, fvars, qvars>>

ChatInit ==
    /\ HStart
    /\ RIdle /\ TIdle /\ SIdle /\ PIdle /\ GIdle /\ DIdle
    /\ LIdle /\ FIdle /\ QIdle

ChatNext ==
    \/ ChatBegin /\ UNCHANGED OutsideChat
    \/ AskGemini /\ UNCHANGED OutsideChat
    \/ ChatReply /\ UNCHANGED OutsideChat

ChatSpec == ChatInit /\ [][ChatNext]_vars

\* ============================================================ fetch_param
Chars == {"2", ".", "-", "a"}
Digits == {"2"}

\* strings of at most MaxValueLen characters
Strings == UNION {[1 .. n -> Chars] : n \in 0 .. MaxValueLen}

ParamKeys == {"epochs", "validation_split"}

IsDigits(str) == \A i \in 1 .. Len(str) : str[i] \in Digits

HasSign(str) == str # <<>> /\ Head(str) = "-"

Unsigned(str) == IF HasSign(str) THEN Tail(str) ELSE str

DigitValue(ch) == IF ch = "2" THEN 2 ELSE 0

\* the number written by a string of digits
RECURSIVE DigitsValue(_)
DigitsValue(str) ==
    IF str = <<>> THEN 0
    ELSE 10 * DigitsValue(SubSeq(str, 1, Len(str) - 1))
         + DigitValue(str[Len(str)])

RECURSIVE PowerOfTen(_)
PowerOfTen(n) == IF n = 0 THEN 1 ELSE 10 * PowerOfTen(n - 1)

\* int(v) does not raise ValueError: an optional sign and digits
ParsesInt(str) == Unsigned(str) # <<>> /\ IsDigits(Unsigned(str))

IntValue(str) ==
    (IF HasSign(str) THEN -1 ELSE 1) * DigitsValue(Unsigned(str))

\* position of the decimal point of an unsigned string, 0 without a point
PointAt(u) ==
    IF \E i \in 1 .. Len(u) : u[i] = "."
    THEN CHOOSE i \in 1 .. Len(u) : u[i] = "." ELSE 0

WholePart(u) == IF PointAt(u) = 0 THEN u ELSE SubSeq(u, 1, PointAt(u) - 1)

FractionPart(u) ==
    IF PointAt(u) = 0 THEN <<>> ELSE SubSeq(u, PointAt(u) + 1, Len(u))

\* float(v) does not raise ValueError: an optional sign, digits with at most
\* one decimal point, at least one digit
ParsesFloat(str) ==
    LET u == Unsigned(str)
    IN /\ IsDigits(WholePart(u))
       /\ IsDigits(FractionPart(u))
       /\ Len(WholePart(u)) + Len(FractionPart(u)) > 0

FloatValue(str) ==
    LET u == Unsigned(str)
    IN <<(IF HasSign(str) THEN -1 ELSE 1)
            * DigitsValue(WholePart(u) \o FractionPart(u)),
         PowerOfTen(Len(FractionPart(u)))>>

\* variant: float is tried before int
ConvertedFloatFirst(v) ==
    IF ParsesFloat(v) THEN [type |-> "float", value |-> FloatValue(v)]
    ELSE IF ParsesInt(v) THEN [type |-> "int", value |-> IntValue(v)]
    ELSE [type |-> "str", value |-> v]

\* try: int(v) / except ValueError: try: float(v) / except ValueError: pass
Converted(v) ==
    IF ParsesInt(v) THEN [type |-> "int", value |-> IntValue(v)]
    ELSE IF ParsesFloat(v) THEN [type |-> "float", value |-> FloatValue(v)]
    ELSE [type |-> "str", value |-> v]

\* best_params["validation_split"] = 0.25
DefaultSplit == [type |-> "float", value |-> <<25, 100>>]

\* the parameters of the best run: any of the keys, any strings
FStart ==
    /\ \E keys \in SUBSET ParamKeys : best_params \in [keys -> Strings]
    /\ config = <<>>
    /\ read_split = <<>>
    /\ fpc = "start"

\* fetch_param(): without an experiment or a run it raises before it writes
FetchParam ==
    /\ fpc = "start"
    /\ \/ /\ fpc' = "failed"
          /\ UNCHANGED config
       \/ /\ config' = [k \in DOMAIN best_params \cup {"validation_split"} |->
                           IF k \in DOMAIN best_params
                           THEN Converted(best_params[k])
                           ELSE DefaultSplit]
          /\ fpc' = "done"
    /\ UNCHANGED <<best_params, read_split>>

\* config = yaml.safe_load(f); validation_split = config["validation_split"]
ReadConfig ==
    /\ fpc = "done"
    /\ IF "validation_split" \in DOMAIN config
       THEN read_split' = config["validation_split"] /\ fpc' = "read"
       ELSE read_split' = read_split /\ fpc' = "failed"
    /\ UNCHANGED <<best_params, config>>

\* what fetch_param leaves alone
OutsideFetch ==
    <<rvars, tvars, svars, pvars, gvars, dvars, lvars, hvars, qvars>>

FetchInit ==
    /\ FStart
    /\ RIdle /\ TIdle /\ SIdle /\ PIdle /\ GIdle /\ DIdle
    /\ LIdle /\ HIdle /\ QIdle

FetchNext ==
    \/ FetchParam /\ UNCHANGED OutsideFetch
    \/ ReadConfig /\ UNCHANGED OutsideFetch

FetchSpec == FetchInit /\ [][FetchNext]_vars

\* ================================================= concurrent get_report
Requests == 1 .. MaxRequests

\* the files as earlier runs left them
NoReport == [by |-> 0, rows |-> 0]

\* the requests have arrived; get_report is a plain def, so each runs in a
\* worker thread of its own
QStart ==
    /\ req = [r \in Requests |->
                 [pc |-> "fetch", cfg |-> 0, encoder |-> 0,
                  report |-> NoReport, response |-> NoReport]]
    /\ shared_config = 0
    /\ shared_report = NoReport

\* preprocess_data(); fetch_param(): yaml.safe_dump(best_params, f)
ReqFetch(r) ==
    /\ req[r].pc = "fetch"
    /\ \/ /\ req' = [req EXCEPT ![r].pc = "failed"]
          /\ UNCHANGED shared_config
       \/ /\ shared_config' = r
          /\ req' = [req EXCEPT ![r].pc = "read"]
    /\ UNCHANGED shared_report

\* config = yaml.safe_load(f)
ReqReadConfig(r) ==
    /\ req[r].pc = "read"
    /\ req' = [req EXCEPT ![r].cfg = shared_config, ![r].pc = "train"]
    /\ UNCHANGED <<shared_config, shared_report>>

\* encoder = train_autoencoder(...)
ReqTrain(r) ==
    /\ req[r].pc = "train"
    /\ \E e \in 1 .. MaxEncoders :
          req' = [req EXCEPT ![r].encoder = e, ![r].pc = "report"]
    /\ UNCHANGED <<shared_config, shared_report>>

\* generate_report(...): result_df.to_csv(RESULTS_PATH, index=False)
ReqWriteReport(r) ==
    /\ req[r].pc = "report"
    /\ LET own == [by |-> r, rows |-> req[r].encoder]
       IN /\ shared_report' = own
          /\ req' = [req EXCEPT ![r].report = own, ![r].pc = "respond"]
    /\ UNCHANGED shared_config

\* return FileResponse(path=csv_path, ...): the file is read when it is sent
ReqRespond(r) ==
    /\ req[r].pc = "respond"
    /\ req' = [req EXCEPT ![r].response = shared_report, ![r].pc = "done"]
    /\ UNCHANGED <<shared_config, shared_report>>

\* what the requests leave alone
OutsideConc ==
    <<rvars, tvars, svars, pvars, gvars, dvars, lvars, hvars, fvars>>

ConcInit ==
    /\ QStart
    /\ RIdle /\ TIdle /\ SIdle /\ PIdle /\ GIdle /\ DIdle
    /\ LIdle /\ HIdle /\ FIdle

ConcNext ==
    \/ \E r \in Requests : ReqFetch(r) /\ UNCHANGED OutsideConc
    \/ \E r \in Requests : ReqReadConfig(r) /\ UNCHANGED OutsideConc
    \/ \E r \in Requests : ReqTrain(r) /\ UNCHANGED OutsideConc
    \/ \E r \in Requests : ReqWriteReport(r) /\ UNCHANGED OutsideConc
    \/ \E r \in Requests : ReqRespond(r) /\ UNCHANGED OutsideConc

ConcSpec == ConcInit /\ [][ConcNext]_vars

\* ------------------------------------------------------- report: claims
Labelled == rpc \in {"write", "done"}

\* 0-based position of cluster c in the ranked list
Pos(c) == (CHOOSE p \in DOMAIN ranked : ranked[p][1] = c) - 1

AvgEq(a, b) == ~AvgLess(a, b) /\ ~AvgLess(b, a)

NonEmpty(c) == Members(cluster_labels, c) # {}

\* the list is in descending order of the averages stored with the ids
RankedDescending ==
    /\ Len(ranked) = N_CLUSTERS
    /\ {ranked[p][1] : p \in DOMAIN ranked} = Clusters
    /\ \A p \in DOMAIN ranked : ranked[p][2] = cluster_to_avg[ranked[p][1]]
    /\ \A p, q \in DOMAIN ranked :
          p < q => ~AvgLess(ranked[p][2], ranked[q][2])

FlowLevel(name) ==
    IF name = "Low Flow Level" THEN 0
    ELSE IF name = "Medium Flow Level" THEN 1
    ELSE 2

\* C1: the clusters are ranked by the mean raw traffic of their members,
\* descending; rank 0 (highest mean) is labelled "High Flow Level", rank 1
\* "Medium Flow Level" and rank 2 (lowest mean) "Low Flow Level", so a cluster
\* with a higher mean never has a lower flow level.
C1_HighestMeanIsHighFlow ==
    Labelled =>
        /\ RankedDescending
        /\ cluster_to_category[ranked[1][1]] = "High Flow Level"
        /\ cluster_to_category[ranked[2][1]] = "Medium Flow Level"
        /\ cluster_to_category[ranked[3][1]] = "Low Flow Level"
        /\ \A c, d \in Clusters :
              AvgLess(cluster_to_avg[c], cluster_to_avg[d]) =>
                  FlowLevel(cluster_to_category[c]) < FlowLevel(cluster_to_category[d])

\* every cluster is made of segments with one raw mean, and the three raw
\* means differ (the {1,1,1},{5,5,5},{9,9,9} example, scaled to the bounds)
GroupsClusteredApart ==
    /\ \A c \in Clusters : NonEmpty(c)
    /\ \A i, j \in DOMAIN cluster_labels :
          (cluster_labels[i] = cluster_labels[j])
              <=> (road_segment_raw_mean[i] = road_segment_raw_mean[j])

\* C2: literal mapping: after sorting the clusters by mean raw traffic
\* descending, rank 0 (highest mean) is named "Low Flow Level", rank 1
\* "Medium Flow Level" and rank 2 (lowest mean) "High Flow Level"; when groups
\* of equal raw means are clustered apart, the segments of the highest group
\* are reported "Low Flow Level" and those of the lowest "High Flow Level".
C2_LiteralMapping ==
    /\ Labelled =>
        /\ RankedDescending
        /\ cluster_to_category[ranked[1][1]] = "Low Flow Level"
        /\ cluster_to_category[ranked[2][1]] = "Medium Flow Level"
        /\ cluster_to_category[ranked[3][1]] = "High Flow Level"
    /\ (rpc = "done" /\ GroupsClusteredApart) =>
          \A i \in DOMAIN result_rows :
             /\ (\A j \in DOMAIN result_rows :
                    road_segment_raw_mean[j] <= road_segment_raw_mean[i])
                  => result_rows[i].category = "Low Flow Level"
             /\ (\A j \in DOMAIN result_rows :
                    road_segment_raw_mean[j] >= road_segment_raw_mean[i])
                  => result_rows[i].category = "High Flow Level"

C2_Witness ==
    /\ rpc = "done"
    /\ GroupsClusteredApart
    /\ \E i \in DOMAIN result_rows :
          /\ road_segment_raw_mean[i] = MaxRawMean
          /\ result_rows[i].category = "Low Flow Level"

\* C3: the ranking is a strict total order over exactly 3 clusters: the three
\* categories are pairwise distinct, a strictly higher mean has a strictly
\* earlier rank, equal means are ranked by cluster id (stable sort), and the
\* category is the name of the rank so determined.
C3_StrictRanking ==
    Labelled =>
        /\ Len(ranked) = N_CLUSTERS
        /\ {ranked[p][1] : p \in DOMAIN ranked} = Clusters
        /\ \A c, d \in Clusters :
              c # d => cluster_to_category[c] # cluster_to_category[d]
        /\ \A c, d \in Clusters :
              AvgLess(cluster_to_avg[d], cluster_to_avg[c]) => Pos(c) < Pos(d)
        /\ \A c, d \in Clusters :
              (c < d /\ AvgEq(cluster_to_avg[c], cluster_to_avg[d]))
                  => Pos(c) < Pos(d)
        /\ \A c \in Clusters :
              cluster_to_category[c] =
                  rank_to_name[Cardinality({d \in Clusters :
                      \/ AvgLess(cluster_to_avg[c], cluster_to_avg[d])
                      \/ (d < c /\ AvgEq(cluster_to_avg[c], cluster_to_avg[d]))})]

\* two non-empty clusters of different sizes tie on the mean
C3_Witness ==
    /\ rpc = "done"
    /\ \E c, d \in Clusters :
          /\ c < d
          /\ NonEmpty(c) /\ NonEmpty(d)
          /\ cluster_to_avg[c] # cluster_to_avg[d]
          /\ AvgEq(cluster_to_avg[c], cluster_to_avg[d])
          /\ Pos(c) < Pos(d)

\* C4: with one or two of the ids 0..2 unused, the ranking step completes
\* without error, every empty cluster has average -inf and every empty
\* cluster is ranked after every non-empty one.
C4_EmptyClusterRankedLast ==
    Labelled =>
        /\ rerr = "none"
        /\ \A c \in Clusters :
              ~NonEmpty(c) =>
                  /\ cluster_to_avg[c] = NegInf
                  /\ \A d \in Clusters : NonEmpty(d) => Pos(d) < Pos(c)

\* cluster 0 is empty and a later cluster has mean 0
C4_Witness ==
    /\ rpc = "done"
    /\ ~NonEmpty(0)
    /\ \E d \in Clusters : NonEmpty(d) /\ cluster_to_avg[d][1] = 0
    /\ Pos(0) > 0

Finished == rpc \in {"done", "failed"}

CategoryNames == {"Low Flow Level", "Medium Flow Level", "High Flow Level"}

RowsMatchInput ==
    /\ result_rows # <<>>
    /\ Len(result_rows) = Len(road_segments)
    /\ \A i \in DOMAIN road_segments :
          /\ result_rows[i].segment = road_segments[i]
          /\ result_rows[i].cluster_id = cluster_labels[i]
          /\ result_rows[i].cluster_id \in Clusters
          /\ result_rows[i].category = cluster_to_category[cluster_labels[i]]
          /\ result_rows[i].category \in CategoryNames
          /\ result_rows[i].avg_raw_traffic = road_segment_raw_mean[i]
    /\ \A i, j \in DOMAIN road_segments :
          result_rows[i].cluster_id = result_rows[j].cluster_id
              => result_rows[i].category = result_rows[j].category

\* C5 as stated: for any input with N segments generate_report ends with
\* exactly N rows, row i describing segment i.
C5_Original == Finished => RowsMatchInput

\* C5: for any input with N >= 3 segments generate_report emits exactly N rows
\* in the order of the segment list; row i holds the identifier of segment i,
\* its cluster id (in 0..2), the category of that cluster (one of the three
\* names, the same for all segments of a cluster) and its raw mean.  With
\* fewer than 3 segments the clustering raises and no row is emitted.
C5_RowsPerSegment ==
    /\ (Finished /\ Len(road_segments) >= N_CLUSTERS) =>
          (rpc = "done" /\ RowsMatchInput)
    /\ (Finished /\ Len(road_segments) < N_CLUSTERS) =>
          (rpc = "failed" /\ rerr = "ValueError" /\ result_rows = <<>>)

\* cluster 2 holds two segments and is not the top-ranked one
C5_Witness ==
    /\ rpc = "done"
    /\ Len(result_rows) > N_CLUSTERS
    /\ \E i, j \in DOMAIN result_rows :
          /\ i # j
          /\ result_rows[i].cluster_id = 2
          /\ result_rows[j].cluster_id = 2
          /\ result_rows[i].category # "High Flow Level"
          /\ result_rows[j].category # "High Flow Level"

\* ------------------------------------------------- autoencoder: claims
Built == tpc \notin {"idle", "build"}

\* C6: for every time_steps >= 1, multiples of 4 or not, the length of the
\* autoencoder's output equals the input length time_steps.
C6_OutputLengthEqualsInput == Built => out_len = time_steps

\* C7: whenever the decoder's output length differs from the input length the
\* mismatch is reported as a ShapeMismatchError that aborts the run;
\* build_autoencoder never returns a model with a differing output length.
C7_MismatchFailsLoudly ==
    (Built /\ out_len # time_steps) =>
        (tpc = "failed" /\ terr = "ShapeMismatchError")

\* ---------------------------------------------------- training: claims
\* lowest validation loss of the epochs before epoch i (Inf if none)
BestBefore(h, i) == IF i = 1 THEN Inf ELSE MinOf(SubSeq(h, 1, i - 1))

NonImproving(h, i) == ~(h[i] < BestBefore(h, i))

\* number of consecutive non-improving epochs at the end of the history
Trailing(h) ==
    Cardinality({k \in 1 .. Len(h) :
        \A i \in (Len(h) - k + 1) .. Len(h) : NonImproving(h, i)})

Fitting == tpc \in {"epoch", "train_end", "print", "done"}

\* C8: training halts at the end of the first epoch at which the validation
\* loss has failed to improve on the best value so far for 5 consecutive
\* epochs, and never halts early with fewer than 5 such epochs; three
\* improving epochs followed by five degrading ones halt at epoch 8.
C8_EarlyStoppingPoint ==
    (Fitting /\ validation_quarters # 0) =>
        /\ Len(val_loss) = epoch
        /\ stop_training <=> (epoch > 0 /\ Trailing(val_loss) >= Patience)
        /\ stop_training => Trailing(val_loss) = Patience
        /\ epoch < epochs => (stop_training <=> tpc # "epoch")
        /\ (epoch >= 3 + Patience
              /\ \A i \in 1 .. (3 + Patience) :
                    NonImproving(val_loss, i) <=> i > 3)
            => (stop_training /\ epoch = 3 + Patience)

C8_Witness ==
    /\ tpc = "done"
    /\ val_loss = <<2, 1, 0, 1, 1, 2, 2, 1>>
    /\ stop_training
    /\ epoch = 8

\* the earliest epoch with the lowest validation loss
BestEpoch(h) ==
    CHOOSE e \in 1 .. Len(h) :
        /\ h[e] = MinOf(h)
        /\ \A d \in 1 .. (e - 1) : h[d] > h[e]

Returned == tpc \in {"print", "done"}

\* C9: when early stopping halts training, the weights in effect afterwards
\* are those of the epoch with the lowest validation loss observed (the
\* earliest such epoch if the minimum repeats), not those of the last epoch.
C9_BestCheckpoint ==
    (Returned /\ stop_training) => weights = BestEpoch(val_loss)

\* the minimum repeats and the last epoch is not the best one
C9_Witness ==
    /\ tpc = "done"
    /\ stop_training
    /\ val_loss = <<2, 1, 1, 1, 2, 1, 2>>
    /\ epoch < epochs
    /\ weights = 2
    /\ ~restore_on_train_end

\* the split leaves fewer than one sample on one side
SplitLeavesEmptySide ==
    \/ validation_quarters = 0
    \/ SplitAt(n_samples, validation_quarters) = 0
    \/ SplitAt(n_samples, validation_quarters) = n_samples

\* C10: if validation_split leaves fewer than 1 sample for validation or for
\* training, train_autoencoder fails with a ConfigurationError before any
\* training epoch is run.
C10_EmptySplitRejected ==
    SplitLeavesEmptySide =>
        /\ epoch = 0
        /\ tpc \in {"done", "failed"} =>
              (tpc = "failed" /\ terr = "ConfigurationError")

\* C16: the encoder is a view over the autoencoder's encoder layers, not a
\* copy: after any sequence of training updates and any restore of the best
\* weights the encoder's parameters equal the autoencoder's.
C16_EncoderSharesWeights == Built => encoder_weights = weights

\* an early stop restored weights older than the last epoch's
C16_Witness ==
    /\ tpc = "done"
    /\ stop_training
    /\ weights # 0
    /\ weights < epoch
    /\ encoder_weights = weights

\* C18: up_size is ceil(time_steps / 4), it equals the encoder's length after
\* its two same-padded halvings, and the length after the decoder's two
\* doublings is at least time_steps and exceeds it by less than 4.
C18_UpSizeIsCeilQuarter ==
    Built =>
        /\ 4 * up_size >= time_steps
        /\ 4 * (up_size - 1) < time_steps
        /\ 2 * enc_len >= (time_steps + 1) \div 2
        /\ 2 * (enc_len - 1) < (time_steps + 1) \div 2
        /\ up_size = enc_len
        /\ out_len = 4 * up_size
        /\ out_len >= time_steps
        /\ out_len - time_steps < 4

C18_Witness ==
    /\ Built
    /\ time_steps = 5
    /\ up_size = 2
    /\ enc_len = 2
    /\ out_len = 8

StageRank ==
    IF tpc = "build" THEN 5
    ELSE IF tpc = "fit" THEN 4
    ELSE IF tpc = "epoch" THEN 3
    ELSE IF tpc = "train_end" THEN 2
    ELSE IF tpc = "print" THEN 1
    ELSE 0

\* steps train_autoencoder can still take, at most
TrainMeasure == StageRank * (epochs + 1) + (epochs - epoch)

\* C19: the training loop always terminates: it runs at most `epochs` epochs
\* and ends at the earlier of the early-stopping trigger and the epoch limit;
\* every step of train_autoencoder lowers a bounded measure.
C19_TrainingTerminates ==
    [][/\ epoch' <= epochs
       /\ TrainMeasure' >= 0
       /\ TrainMeasure' < TrainMeasure
       /\ (tpc = "epoch" /\ validation_quarters # 0) =>
             ((tpc' = "train_end") <=> (stop_training' \/ epoch' = epochs))]_vars

\* the epoch limit ends a run the early stopping did not end
C19_Witness ==
    /\ tpc = "done"
    /\ ~stop_training
    /\ epoch = epochs
    /\ epochs > Patience
    /\ Trailing(val_loss) = Patience - 1

\* C20: on every return the printed validation loss (the minimum over the
\* epochs run) is the validation loss of the weights the returned encoder
\* holds: the encoder holds the best epoch's weights, also when the epochs
\* are exhausted without an early stop and the last epoch is not the best.
C20_PrintedLossIsEncoders ==
    tpc = "done" =>
        /\ encoder_weights \in 1 .. Len(val_loss)
        /\ printed = val_loss[encoder_weights]

\* C17: each call of train_autoencoder builds a fresh autoencoder and holds
\* its weights only for that call: a call starts from initial weights on a
\* model no earlier call used, and the encoder an earlier call returned is
\* left unchanged by every step of a later call.
C17_CallsShareNoWeights ==
    [][/\ \A i \in DOMAIN returned :
             i \in DOMAIN returned' /\ returned'[i] = returned[i]
       /\ (tpc = "build" /\ tpc' = "fit") =>
             /\ weights' = 0
             /\ encoder_weights' = 0
             /\ \A i \in DOMAIN returned : returned[i].model # call]_vars

\* the second call ends with other weights than the first
C17_Witness ==
    /\ call = 2
    /\ tpc = "done"
    /\ Len(returned) = 1
    /\ returned[1].model = 1
    /\ returned[1].weights = 2
    /\ encoder_weights = 1

\* ------------------------------------------------ preprocessing: claims
NSeg == Len(raw_columns)
NSteps == Len(raw_table)

\* the counts of segment i, read from the table
CountsOf(i) == [t \in 1 .. NSteps |-> raw_table[t][i]]

\* C13: for a table with T rows and S segment columns preprocess_data returns
\* a tensor of shape (S, T, 1), the S identifiers in column order and S raw
\* means, the i-th being the arithmetic mean of the unscaled counts of the
\* i-th segment; tensor row, identifier and mean i belong to one segment.
C13_PreprocessOutputs ==
    ppc = "done" =>
        /\ Len(x_seq) = NSeg
        /\ \A i \in 1 .. NSeg :
              /\ Len(x_seq[i]) = NSteps
              /\ \A t \in 1 .. NSteps : Len(x_seq[i][t]) = 1
        /\ segment_names = raw_columns
        /\ Len(segment_mean_raw) = NSeg
        /\ \A i \in 1 .. NSeg :
              /\ segment_mean_raw[i][2] = NSteps
              /\ segment_mean_raw[i][1] =
                    SumOver(CountsOf(i), 1 .. NSteps)
        /\ \A i, j \in 1 .. NSeg : \A t \in 1 .. NSteps :
              /\ x_seq[i][t][1][2] = x_seq[j][t][1][2]
              /\ (raw_table[t][i] < raw_table[t][j])
                    <=> (x_seq[i][t][1][1] < x_seq[j][t][1][1])

\* two segments, two time steps, the segment with the lower mean is higher
\* at the first time step
C13_Witness ==
    /\ ppc = "done"
    /\ NSeg = 2 /\ NSteps = 2
    /\ raw_table[1][1] > raw_table[1][2]
    /\ segment_mean_raw[1][1] < segment_mean_raw[2][1]
    /\ x_seq[1][1][1][1] > 0

\* the scaled values of time step t over the segments
FeatureNums(t) == [i \in 1 .. NSeg |-> x_seq[i][t][1][1]]

\* mean of num / sqrt(den2) is 0
FeatureMeanZero(t) == SeqSum(FeatureNums(t)) = 0

\* mean of num^2 / den2 is 1
FeatureVarianceOne(t) ==
    SeqSum([i \in 1 .. NSeg |-> FeatureNums(t)[i] * FeatureNums(t)[i]])
        = NSeg * x_seq[1][t][1][2]

FeatureConstant(t) == \A i, j \in 1 .. NSeg : raw_table[t][i] = raw_table[t][j]

\* C14 as stated: every time-step feature of the scaled tensor has mean zero
\* and variance one, also when the segments agree at a time step.
C14_Original ==
    ppc = "done" =>
        \A t \in 1 .. NSteps : FeatureMeanZero(t) /\ FeatureVarianceOne(t)

\* C14: every time-step feature of the scaled tensor has mean zero; it has
\* variance one when the segments do not all have the same count at that time
\* step, and otherwise (also with a single segment) every scaled value is 0.
C14_ScaledMoments ==
    ppc = "done" =>
        \A t \in 1 .. NSteps :
           /\ FeatureMeanZero(t)
           /\ ~FeatureConstant(t) => FeatureVarianceOne(t)
           /\ FeatureConstant(t) =>
                 /\ ~FeatureVarianceOne(t)
                 /\ \A i \in 1 .. NSeg : x_seq[i][t][1][1] = 0

\* one time step where the segments agree and one where they differ
C14_Witness ==
    /\ ppc = "done"
    /\ NSeg = 2 /\ NSteps = 2
    /\ FeatureConstant(1)
    /\ ~FeatureConstant(2)
    /\ FeatureVarianceOne(2)

\* C15: preprocess_data fails with a DataFormatError whenever the table has
\* zero segments or zero time steps; it never returns a tensor with a
\* zero-sized dimension.
C15_EmptyTableRejected ==
    /\ (ppc # "start" /\ (NSeg = 0 \/ NSteps = 0)) =>
          (ppc = "failed" /\ perr = "DataFormatError")
    /\ ppc = "done" =>
          /\ Len(x_seq) > 0
          /\ \A i \in 1 .. Len(x_seq) : Len(x_seq[i]) > 0

\* --------------------------------------------------- get_report: claims
StageFailed == ppc = "failed" \/ tpc = "failed" \/ rpc = "failed"

\* C11: in a pipeline run the report file is written only after
\* preprocessing, training, the clustering of all segments and the ranking and
\* labelling of all clusters have completed; when a stage fails, the run has
\* written nothing and the file is as it was when the run began.
C11_NoPartialReport ==
    /\ result_rows # file_before =>
          /\ ppc = "done" /\ tpc = "done" /\ rpc = "done"
          /\ DOMAIN cluster_labels = DOMAIN segment_names
          /\ DOMAIN cluster_to_category = Clusters
          /\ Len(ranked) = N_CLUSTERS
          /\ result_rows = ReportRows(segment_names, cluster_labels,
                                      cluster_to_category, road_segment_raw_mean)
    /\ StageFailed => (gpc = "failed" /\ result_rows = file_before)
    /\ gpc \in {"preprocess", "fetch", "train", "report"} =>
          result_rows = file_before

\* the clustering stage failed after a successful training and the old
\* report is still on disk
C11_Witness ==
    /\ gpc = "failed"
    /\ ppc = "done" /\ tpc = "done" /\ rpc = "failed"
    /\ file_before = OldReport
    /\ result_rows = OldReport

\* C12: running the pipeline twice on identical input, with the seeds the
\* code fixes, yields identical cluster ids and identical category labels for
\* every segment.
C12_RunsAgree ==
    \A j, k \in DOMAIN runs :
        /\ runs[j].cluster_id = runs[k].cluster_id
        /\ runs[j].category = runs[k].category

\* ---------------------------------------------------- load_data: claims
LoadCalled == lpc = "idle" /\ lpc' = "returned"

\* C24: load_data reads the file only when nothing is cached or more than
\* refresh_interval has passed since the last successful load; otherwise it
\* returns the cached data and leaves last_load_time alone, so that cached
\* data handed out was loaded at most refresh_interval before the call.
\* last_load_time moves only at a successful read, to the time of the call.
C24_CacheWithinInterval ==
    [][/\ LoadCalled =>
            /\ (load_read' \in {"read", "failed"})
                  <=> (data = None \/ now - last_load_time > refresh_interval)
            /\ load_read' = "cached" =>
                  /\ data # None
                  /\ load_returned' = data
                  /\ data' = data
                  /\ last_load_time' = last_load_time
                  /\ now - last_load_time <= refresh_interval
       /\ (last_load_time' # last_load_time \/ data' # data) =>
            /\ LoadCalled
            /\ load_read' = "read"
            /\ last_load_time' = now
            /\ data' = csv_version]_vars

\* the cached copy is handed out exactly refresh_interval after its load,
\* although the file has changed since
C24_Witness ==
    /\ lpc = "returned"
    /\ load_read = "cached"
    /\ refresh_interval > 0
    /\ now - last_load_time = refresh_interval
    /\ load_returned = data
    /\ data # csv_version

\* C25: when the read fails load_data returns None and changes neither the
\* cached data nor last_load_time, also when a stale copy is cached; after a
\* failure every call reads again until a read succeeds.
C25_FailedReadKeepsCache ==
    [][/\ (LoadCalled /\ load_read' = "failed") =>
            /\ load_returned' = None
            /\ data' = data
            /\ last_load_time' = last_load_time
       /\ (LoadCalled /\ load_read = "failed") =>
            load_read' \in {"read", "failed"}
       /\ (LoadCalled /\ load_read = "failed" /\ load_read' = "read") =>
            (load_returned' = csv_version /\ last_load_time' = now)]_vars

\* a stale copy is cached, the read has failed and None was returned
C25_Witness ==
    /\ lpc = "returned"
    /\ load_read = "failed"
    /\ load_returned = None
    /\ data # None
    /\ data # csv_version
    /\ now - last_load_time > refresh_interval

\* ------------------------------------------------------ chatbot: claims
\* C22: the chatbot's fixed mapping 0 = Low, 1 = Medium, 2 = High agrees with
\* the means of the clusters in every report generate_report writes: of two
\* clusters with members, the one the mapping calls lower never has the higher
\* mean avg_raw_traffic.
C22_ChatbotMappingAgrees ==
    rpc = "done" =>
        \A c, d \in Clusters :
            (/\ ChatClusterAvg(result_rows, c)[2] > 0
             /\ ChatClusterAvg(result_rows, d)[2] > 0
             /\ LevelRank(cluster_mapping[c]) < LevelRank(cluster_mapping[d]))
            => ~AvgLess(ChatClusterAvg(result_rows, d),
                        ChatClusterAvg(result_rows, c))

\* C23: when the Gemini call fails (status other than 200, network error,
\* error while processing the response) chat_endpoint answers with the raw
\* data context and not with the error text; the answer of a successful call
\* is never replaced by the fallback.
C23_FallbackOnFailure ==
    (hpc = "done" /\ ~question_greets /\ df_loaded) =>
        /\ api_outcome # "ok" => chat_answer = FallbackAnswer(context)
        /\ api_outcome = "ok" =>
              (chat_answer = gemini_answer /\ chat_answer # FallbackAnswer(context))

\* ---------------------------------------------------- fetch_param: claims
\* C26: after fetch_param the configuration has the keys of the best run's
\* parameters plus validation_split; a value that parses as an integer is
\* stored as that integer, otherwise as a float if it parses as one, otherwise
\* as the unchanged string; validation_split keeps the best run's value when
\* present and is 0.25 otherwise, and get_report finds it in the configuration.
C26_ConfigTyped ==
    /\ fpc \in {"done", "read"} =>
          /\ DOMAIN config = DOMAIN best_params \cup {"validation_split"}
          /\ \A k \in DOMAIN best_params :
                /\ ParsesInt(best_params[k]) =>
                      config[k] = [type |-> "int",
                                   value |-> IntValue(best_params[k])]
                /\ (~ParsesInt(best_params[k]) /\ ParsesFloat(best_params[k])) =>
                      config[k] = [type |-> "float",
                                   value |-> FloatValue(best_params[k])]
                /\ (~ParsesInt(best_params[k]) /\ ~ParsesFloat(best_params[k])) =>
                      config[k] = [type |-> "str", value |-> best_params[k]]
          /\ "validation_split" \notin DOMAIN best_params =>
                config["validation_split"] = DefaultSplit
    /\ fpc = "read" => read_split = config["validation_split"]
    /\ fpc = "failed" => config = <<>>

\* the best run has an integer epochs and no validation_split
C26_Witness ==
    /\ fpc = "read"
    /\ DOMAIN best_params = {"epochs"}
    /\ best_params["epochs"] = <<"-", "2", "2">>
    /\ config["epochs"] = [type |-> "int", value |-> -22]
    /\ read_split = DefaultSplit

\* ------------------------------------------- concurrent get_report: claims
\* C21: for any interleaving of concurrent get_report requests, each request
\* reads the config.yaml it wrote itself and answers with the report its own
\* run computed, never with a file another request wrote.
C21_RequestsIsolated ==
    \A r \in Requests :
        /\ req[r].pc \in {"train", "report", "respond", "done"} =>
              req[r].cfg = r
        /\ req[r].pc = "done" =>
              /\ req[r].response.by = r
              /\ req[r].response.rows = req[r].report.rows

====
